---- MODULE Spec2Model ----
(***************************************************************************)
(* Model of the catalog crawler of src/main.py: the run coordinator        *)
(* (main), the tree walker (process_subcategories_and_products), the       *)
(* product and offer ingestion tasks launched with asyncio.gather, the     *)
(* asyncio.Semaphore gating the offer-detail fetches, and the two sinks    *)
(* (SQLite tables written with INSERT OR REPLACE, or the CSV writer).      *)
(*                                                                         *)
(* Scheduling is asyncio's: one coroutine runs at a time and control       *)
(* changes hands only at an await that suspends (a network call, an        *)
(* aiosqlite call, a semaphore wait, a gather).  One action is one such    *)
(* step of one coroutine.                                                  *)
(***************************************************************************)
EXTENDS Integers, Sequences, FiniteSets, TLC

(***************************************************************************)
(* Bounds of the model.                                                    *)
(***************************************************************************)
\* gate sizes 1..MaxRequests are explored (--request-limit)
MaxRequests == 2
\* at most this many endpoints of the remote API answer with a non-200 status
MaxFailures == 1
\* at most this many storage calls fail (sqlite3 raising) in one execution
MaxStorageFaults == 1
\* the script is run at most this many times against the same database file
MaxRuns == 2

(***************************************************************************)
(* The remote catalog (the environment).  Payload shapes follow the keys   *)
(* the code reads.  A text is a sequence of one-character strings so that  *)
(* split(',') and ', '.join can be computed.                               *)
(***************************************************************************)
AddrMoscow == <<"M", ",", "a">>
AddrPlain == <<"K">>

Store5 == [shop_id |-> 5, address |-> AddrMoscow,
           subways |-> <<[name |-> <<"x">>], [name |-> <<"y">>]>>,
           availability |-> [text |-> "few"]]
Store6 == [shop_id |-> 6, address |-> AddrPlain,
           subways |-> <<>>,
           availability |-> [text |-> "many"]]

Detail(id, retail, disc, stores) ==
    [id |-> id, size |-> "L", retail_price |-> retail, discount_price |-> disc,
     vendor_code |-> "V",
     availability_info |-> [is_available |-> stores # <<>>,
                            offer_store_amount |-> stores]]

\* GET /catalog/offers/{offer_id}/details with status 200
OfferDetail(offer_id) ==
    CASE offer_id = 1000 -> Detail(1000, 100, 80, <<Store5, Store6>>)
      [] offer_id = 1001 -> Detail(1001, 100, 100, <<Store5>>)
      [] offer_id = 1002 -> Detail(1002, 50, 60, <<Store6>>)
      [] offer_id = 1003 -> Detail(1003, 50, 50, <<>>)
      [] offer_id = 4001 -> Detail(4001, 10, 5, <<>>)
      [] offer_id = 4002 -> Detail(4002, 10, 10, <<>>)
      [] offer_id = 4003 -> Detail(4003, 10, 10, <<>>)
      [] OTHER -> Detail(offer_id, 1, 1, <<>>)

Product(id, offer_ids) ==
    [id |-> id, name |-> "p", brand |-> "b",
     offers |-> [i \in 1..Len(offer_ids) |-> [id |-> offer_ids[i]]]]
\* a product payload that carries no `offers` key
ProductNoOffers(id) == [id |-> id, name |-> "p", brand |-> "b"]

\* GET /catalog/list?category_id=... with status 200: the `products` list
ProductList(category_id) ==
    CASE category_id = 10 -> <<Product(100, <<1000, 1001>>)>>
      [] category_id = 11 -> <<>>
      [] category_id = 12 -> <<Product(101, <<1002>>)>>
      [] category_id = 13 -> <<Product(100, <<1000, 1001>>)>>
      [] category_id = 20 -> <<Product(102, <<1003>>)>>
      [] category_id = 40 -> <<Product(400, <<4001, 4002, 4003>>), Product(401, <<>>)>>
      [] category_id = 50 -> <<ProductNoOffers(500), Product(501, <<1003>>)>>
      [] OTHER -> <<>>

Node(id, subs) == [id |-> id, name |-> "n", subcategories |-> subs]
\* a category or subcategory payload that carries no `subcategories` key
Leaf(id) == [id |-> id, name |-> "n"]

\* GET /catalog/categories with status 200: three catalogs the run may meet
CatalogDeep ==
    << Node(1, << Node(10, << Node(11, << Leaf(12) >>) >>), Leaf(13) >>),
       Node(2, << Leaf(20) >>),
       Leaf(3) >>
CatalogWide == << Node(4, << Leaf(40) >>) >>
CatalogSparse == << Node(5, << Leaf(50), Leaf(20) >>) >>
Catalogs == {CatalogDeep, CatalogWide, CatalogSparse}

(***************************************************************************)
(* Pure helpers, computed as the code computes them.                       *)
(***************************************************************************)
\* Python's {} : the empty payload fetch_offer_details returns on failure
EmptyObject == [e \in {} |-> e]

\* shop['address'].split(',')[0] : the text before the first comma
RECURSIVE SplitFirst(_)
SplitFirst(text) ==
    IF text = <<>> \/ Head(text) = "," THEN <<>>
    ELSE <<Head(text)>> \o SplitFirst(Tail(text))

\* ', '.join([subway['name'] for subway in shop['subways']])
RECURSIVE JoinSubways(_)
JoinSubways(subways) ==
    IF subways = <<>> THEN <<>>
    ELSE IF Len(subways) = 1 THEN subways[1].name
    ELSE subways[1].name \o <<",", " ">> \o JoinSubways(Tail(subways))

TableNames == {"categories", "subcategories", "products", "offers", "shops",
               "offer_shop_amount"}
EmptyDb == [t \in TableNames |-> {}]

\* the PRIMARY KEY of each table of create_database_and_tables
PrimaryKey(table, row) ==
    IF table = "offer_shop_amount" THEN <<row.offer_id, row.shop_id>>
    ELSE <<row.id, 0>>

\* INSERT without the OR REPLACE conflict clause, on a table that lost its key
InsertOnly(d, stmt) ==
    [d EXCEPT ![stmt.table] = @ \cup {stmt.row}]
\* INSERT OR IGNORE: the row stored first under a key stays
InsertOrIgnore(d, stmt) ==
    IF \E r \in d[stmt.table] :
           PrimaryKey(stmt.table, r) = PrimaryKey(stmt.table, stmt.row)
    THEN d
    ELSE [d EXCEPT ![stmt.table] = @ \cup {stmt.row}]
\* INSERT OR REPLACE INTO table VALUES row
InsertOrReplace(d, stmt) ==
    [d EXCEPT ![stmt.table] =
        {r \in @ : PrimaryKey(stmt.table, r) # PrimaryKey(stmt.table, stmt.row)}
        \cup {stmt.row}]

\* an execute that is at once visible to every other connection
ExecuteAutocommit(d, stmt) == InsertOrReplace(d, stmt)
\* cursor.execute inside an open transaction: the file other connections read
\* is unchanged until conn.commit()
ExecuteStatement(d, stmt) == d

\* conn.commit(): the statements of the transaction take effect, in order
RECURSIVE CommitTransaction(_, _)
CommitTransaction(d, txn) ==
    IF txn = <<>> THEN d
    ELSE CommitTransaction(InsertOrReplace(d, Head(txn)), Tail(txn))

CategoryStatement(category) ==
    [table |-> "categories", row |-> [id |-> category.id, name |-> category.name]]

SubcategoryStatement(subcategory, top_category_id) ==
    [table |-> "subcategories",
     row |-> [id |-> subcategory.id, name |-> subcategory.name,
              parent_id |-> top_category_id]]

\* the recursion handing down the id of the node it is in
InsertRecursionImmediateParent(subcategory, top_category_id) == subcategory.id
\* line 133: the recursive call passes top_category_id on unchanged
InsertRecursionParent(subcategory, top_category_id) == top_category_id

\* insert_subcategory_to_db: the rows it writes, one committed transaction
\* each, in the order of its recursion (the node, then each nested node's
\* subtree)
RECURSIVE SubcategoryInserts(_, _)
RECURSIVE SubcategoryInsertsOfList(_, _)
SubcategoryInserts(subcategory, top_category_id) ==
    <<SubcategoryStatement(subcategory, top_category_id)>> \o
    (IF "subcategories" \in DOMAIN subcategory
     THEN SubcategoryInsertsOfList(subcategory.subcategories,
                                   InsertRecursionParent(subcategory, top_category_id))
     ELSE <<>>)
SubcategoryInsertsOfList(subs, top_category_id) ==
    IF subs = <<>> THEN <<>>
    ELSE SubcategoryInserts(Head(subs), top_category_id) \o
         SubcategoryInsertsOfList(Tail(subs), top_category_id)

ProductStatement(product, subcategory_id) ==
    [table |-> "products",
     row |-> [id |-> product.id, name |-> product.name, brand |-> product.brand,
              subcategory_id |-> subcategory_id]]

\* the comparison written with <=
DiscountNonStrict(offer_details) ==
    offer_details.discount_price <= offer_details.retail_price
\* line 175: float(discount_price) < float(retail_price)
Discount(offer_details) == offer_details.discount_price < offer_details.retail_price

OfferStatement(offer_details, product_id) ==
    [table |-> "offers",
     row |-> [id |-> offer_details.id, product_id |-> product_id,
              size |-> offer_details.size,
              retail_price |-> offer_details.retail_price,
              discount_price |-> offer_details.discount_price,
              discount |-> Discount(offer_details),
              vendor_code |-> offer_details.vendor_code,
              is_available |-> offer_details.availability_info.is_available]]

ShopStatement(shop) ==
    [table |-> "shops",
     row |-> [id |-> shop.shop_id, address |-> shop.address,
              subways |-> JoinSubways(shop.subways)]]

AmountStatement(offer_details, shop) ==
    [table |-> "offer_shop_amount",
     row |-> [offer_id |-> offer_details.id, shop_id |-> shop.shop_id,
              availability_text |-> shop.availability.text]]

RECURSIVE StoreStatements(_, _)
StoreStatements(offer_details, stores) ==
    IF stores = <<>> THEN <<>>
    ELSE <<ShopStatement(Head(stores)), AmountStatement(offer_details, Head(stores))>>
         \o StoreStatements(offer_details, Tail(stores))

\* the statements of the transaction of insert_offer_to_db, in execution order
OfferStatements(offer_details, product_id) ==
    <<OfferStatement(offer_details, product_id)>> \o
    StoreStatements(offer_details, offer_details.availability_info.offer_store_amount)

CsvRow(offer_details, shop, product_name) ==
    [city |-> SplitFirst(shop.address), address |-> shop.address,
     vendor_code |-> offer_details.vendor_code, product_name |-> product_name,
     size |-> offer_details.size, retail_price |-> offer_details.retail_price,
     discount_price |-> offer_details.discount_price,
     availability_text |-> shop.availability.text]

\* the rows the loop of lines 160-170 appends, in store order
CsvRows(offer_details, product_name) ==
    LET stores == offer_details.availability_info.offer_store_amount
    IN [i \in 1..Len(stores) |-> CsvRow(offer_details, stores[i], product_name)]

\* which (offer, shop) pair each appended row came from (bookkeeping)
CsvOrigins(offer_details) ==
    LET stores == offer_details.availability_info.offer_store_amount
    IN [i \in 1..Len(stores) |-> <<offer_details.id, stores[i].shop_id>>]

(***************************************************************************)
(* State.                                                                  *)
(***************************************************************************)
VARIABLES
    save_to_csv,     \* line 261: not bool(args.db); TRUE = tabular sink
    max_requests,    \* --request-limit, the size of the semaphore
    remote,          \* the category list the API serves
    up, down,        \* endpoints that have answered 200 / non-200
    faults,          \* storage calls that have raised so far
    run,             \* which run of the script this is
    mainPc,          \* where the coroutine main (and the walker it awaits) is
    categories_data, \* line 222
    catIdx,          \* the position of `for category in categories_data`
    stack,           \* the activations of process_subcategories_and_products
    subQueue,        \* insert_subcategory_to_db: the inserts still to do
    mainTxn,         \* statements main's open connection has executed
    prodTasks,       \* the insert_product_to_db tasks of the current gather
    offerTasks,      \* the insert_offer_to_db tasks of the current gather
    semValue,        \* asyncio.Semaphore._value: free permits
    waiters,         \* asyncio.Semaphore._waiters: offer tasks, FIFO
    dbLock,          \* the connection holding SQLite's write lock
    db,              \* the committed content of the database file
    schema,          \* the tables exist
    csvOpen,         \* products.csv is open and has its header
    csvRows,         \* the rows appended to products.csv
    csvOrigin,       \* per row of csvRows: <<offer id, shop id>>
    completed,       \* how often "Data insertion completed." was printed
    fetched,         \* endpoints requested in this run
    dbFirst          \* the database as the first completed run left it

vars == <<save_to_csv, max_requests, remote, up, down, faults, run, mainPc,
          categories_data, catIdx, stack, subQueue, mainTxn, prodTasks,
          offerTasks, semValue, waiters, dbLock, db, schema, csvOpen, csvRows,
          csvOrigin, completed, fetched, dbFirst>>

config == <<save_to_csv, max_requests, remote>>
sinks == <<db, schema, csvOpen, csvRows, csvOrigin>>
gate == <<semValue, waiters>>
tasks == <<prodTasks, offerTasks>>
walker == <<categories_data, catIdx, stack, subQueue>>

Free == <<"free", 0>>
MainConn == <<"main", 0>>
ProductConn(p) == <<"product", p>>
OfferConn(o) == <<"offer", o>>

CategoriesEndpoint == <<"categories", 0>>
ProductsEndpoint(category_id) == <<"products", category_id>>
OfferEndpoint(offer_id) == <<"offer", offer_id>>

\* the statuses the endpoint may answer with: an endpoint keeps its status
\* (the remote data does not change during an execution)
Statuses(endpoint) ==
    IF endpoint \in down THEN {500}
    ELSE IF endpoint \in up THEN {200}
    ELSE {200} \cup (IF Cardinality(down) < MaxFailures THEN {500} ELSE {})

Answered(endpoint, status) ==
    /\ up' = IF status = 200 THEN up \cup {endpoint} ELSE up
    /\ down' = IF status = 200 THEN down ELSE down \cup {endpoint}

Init ==
    /\ save_to_csv \in BOOLEAN
    /\ max_requests \in 1..MaxRequests
    /\ remote \in Catalogs
    /\ up = {}
    /\ down = {}
    /\ faults = 0
    /\ run = 1
    /\ mainPc = "start"
    /\ categories_data = <<>>
    /\ catIdx = 1
    /\ stack = <<>>
    /\ subQueue = <<>>
    /\ mainTxn = <<>>
    /\ prodTasks = <<>>
    /\ offerTasks = <<>>
    /\ semValue = max_requests
    /\ waiters = <<>>
    /\ dbLock = Free
    /\ db = EmptyDb
    /\ schema = FALSE
    /\ csvOpen = FALSE
    /\ csvRows = <<>>
    /\ csvOrigin = <<>>
    /\ completed = 0
    /\ fetched = {}
    /\ dbFirst = EmptyDb

(***************************************************************************)
(* main and the tree walker it awaits: one coroutine.                      *)
(***************************************************************************)
Frame(subcategories, top_category_id) ==
    [subcategories |-> subcategories, i |-> 1, top_category_id |-> top_category_id]
TopFrame == stack[Len(stack)]
CurrentSubcategory == TopFrame.subcategories[TopFrame.i]
CurrentCategory == categories_data[catIdx]

\* fetch_categories_data answering [] whatever the status
CategoriesIgnoringStatus(status, payload) == payload
\* lines 14-18: the `categories` list on 200, [] otherwise
CategoriesResult(status, payload) == IF status = 200 THEN payload ELSE <<>>

\* lines 24-28: the `products` list on 200, [] otherwise
ProductsResult(status, payload) == IF status = 200 THEN payload ELSE <<>>

\* line 222: the request of fetch_categories_data is sent
FetchCategoriesRequest ==
    /\ mainPc = "start"
    /\ mainPc' = "await_categories"
    /\ fetched' = fetched \cup {CategoriesEndpoint}
    /\ UNCHANGED <<config, up, down, faults, run, walker, mainTxn, tasks, gate,
                   dbLock, sinks, completed, dbFirst>>

\* lines 13-18: the response arrives
FetchCategoriesResponse ==
    /\ mainPc = "await_categories"
    /\ \E status \in Statuses(CategoriesEndpoint) :
          /\ Answered(CategoriesEndpoint, status)
          /\ categories_data' = CategoriesResult(status, remote)
    /\ catIdx' = 1
    /\ mainPc' = "sink"
    /\ UNCHANGED <<config, faults, run, stack, subQueue, mainTxn, tasks, gate,
                   dbLock, sinks, completed, fetched, dbFirst>>

\* lines 224-225 and 42-105: CREATE TABLE IF NOT EXISTS ... ; commit
CreateDatabaseAndTables ==
    /\ mainPc = "sink"
    /\ ~save_to_csv
    /\ schema' = TRUE
    /\ mainPc' = "category_loop"
    /\ UNCHANGED <<config, up, down, faults, run, walker, mainTxn, tasks, gate,
                   dbLock, db, csvOpen, csvRows, csvOrigin, completed, fetched,
                   dbFirst>>

\* lines 227-232: open(csv_file, 'w') truncates the file; writeheader()
OpenCsvFile ==
    /\ mainPc = "sink"
    /\ save_to_csv
    /\ csvOpen' = TRUE
    /\ csvRows' = <<>>
    /\ csvOrigin' = <<>>
    /\ mainPc' = "category_loop"
    /\ UNCHANGED <<config, up, down, faults, run, walker, mainTxn, tasks, gate,
                   dbLock, db, schema, completed, fetched, dbFirst>>

\* lines 238-240 / 245-247: walk the category's subcategories, if it has any
EnterCategory(category) ==
    IF "subcategories" \in DOMAIN category
    THEN /\ stack' = <<Frame(category.subcategories, category.id)>>
         /\ mainPc' = "sub_loop"
         /\ catIdx' = catIdx
    ELSE /\ stack' = stack
         /\ mainPc' = "category_loop"
         /\ catIdx' = catIdx + 1

\* the relational branch is taken whatever the mode
AlwaysRelational(csv) == TRUE
\* lines 137, 202, 224, 236: `if save_to_csv is not True` / `if not save_to_csv`
WritesRelational(csv) == csv # TRUE

\* lines 234-237 / 242-244: the next category of the loop
NextCategory ==
    /\ mainPc = "category_loop"
    /\ catIdx <= Len(categories_data)
    /\ IF WritesRelational(save_to_csv)
       THEN /\ mainPc' = "insert_category"
            /\ UNCHANGED <<catIdx, stack>>
       ELSE EnterCategory(CurrentCategory)
    /\ UNCHANGED <<config, up, down, faults, run, categories_data, subQueue,
                   mainTxn, tasks, gate, dbLock, sinks, completed, fetched,
                   dbFirst>>

\* lines 109-115: insert_category_to_db executes its INSERT OR REPLACE
InsertCategoryExecute ==
    /\ mainPc = "insert_category"
    /\ dbLock = Free
    /\ dbLock' = MainConn
    /\ mainTxn' = <<CategoryStatement(CurrentCategory)>>
    /\ db' = ExecuteStatement(db, CategoryStatement(CurrentCategory))
    /\ mainPc' = "commit_category"
    /\ UNCHANGED <<config, up, down, faults, run, walker, tasks, gate, schema,
                   csvOpen, csvRows, csvOrigin, completed, fetched, dbFirst>>

\* line 117, then lines 245-247
InsertCategoryCommit ==
    /\ mainPc = "commit_category"
    /\ db' = CommitTransaction(db, mainTxn)
    /\ mainTxn' = <<>>
    /\ dbLock' = Free
    /\ EnterCategory(CurrentCategory)
    /\ UNCHANGED <<config, up, down, faults, run, categories_data, subQueue,
                   tasks, gate, schema, csvOpen, csvRows, csvOrigin, completed,
                   fetched, dbFirst>>

\* lines 201-203: the next subcategory of the list being walked
NextSubcategory ==
    /\ mainPc = "sub_loop"
    /\ TopFrame.i <= Len(TopFrame.subcategories)
    /\ IF WritesRelational(save_to_csv)
       THEN /\ subQueue' = SubcategoryInserts(CurrentSubcategory,
                                              TopFrame.top_category_id)
            /\ mainPc' = "insert_subcategory"
       ELSE /\ subQueue' = subQueue
            /\ mainPc' = "fetch_products"
    /\ UNCHANGED <<config, up, down, faults, run, categories_data, catIdx, stack,
                   mainTxn, tasks, gate, dbLock, sinks, completed, fetched,
                   dbFirst>>

\* the `for` of line 201 is exhausted: the activation returns to its caller
ReturnFromWalk ==
    /\ mainPc = "sub_loop"
    /\ TopFrame.i > Len(TopFrame.subcategories)
    /\ IF Len(stack) = 1
       THEN /\ stack' = <<>>
            /\ catIdx' = catIdx + 1
            /\ mainPc' = "category_loop"
       ELSE /\ stack' = [SubSeq(stack, 1, Len(stack) - 1)
                           EXCEPT ![Len(stack) - 1].i = @ + 1]
            /\ catIdx' = catIdx
            /\ mainPc' = "sub_loop"
    /\ UNCHANGED <<config, up, down, faults, run, categories_data, subQueue,
                   mainTxn, tasks, gate, dbLock, sinks, completed, fetched,
                   dbFirst>>

\* lines 121-127: one INSERT OR REPLACE of insert_subcategory_to_db
InsertSubcategoryExecute ==
    /\ mainPc = "insert_subcategory"
    /\ dbLock = Free
    /\ dbLock' = MainConn
    /\ mainTxn' = <<Head(subQueue)>>
    /\ db' = ExecuteStatement(db, Head(subQueue))
    /\ mainPc' = "commit_subcategory"
    /\ UNCHANGED <<config, up, down, faults, run, walker, tasks, gate, schema,
                   csvOpen, csvRows, csvOrigin, completed, fetched, dbFirst>>

\* line 129, then the recursion of lines 131-133 or the return to line 205
InsertSubcategoryCommit ==
    /\ mainPc = "commit_subcategory"
    /\ db' = CommitTransaction(db, mainTxn)
    /\ mainTxn' = <<>>
    /\ dbLock' = Free
    /\ subQueue' = Tail(subQueue)
    /\ mainPc' = IF Tail(subQueue) = <<>> THEN "fetch_products"
                 ELSE "insert_subcategory"
    /\ UNCHANGED <<config, up, down, faults, run, categories_data, catIdx, stack,
                   tasks, gate, schema, csvOpen, csvRows, csvOrigin, completed,
                   fetched, dbFirst>>

Live(task) == task.pc \notin {"done", "raised", "cancelled"}
Cancel(task) == IF Live(task) THEN [task EXCEPT !.pc = "cancelled", !.txn = <<>>]
                ELSE task

\* lines 221, 263: an exception leaving main unwinds to asyncio.run, which
\* cancels the tasks still pending; their `async with` blocks release the
\* permits and close the connections (open transactions are rolled back)
AbortRun ==
    /\ mainPc' = "aborted"
    /\ mainTxn' = <<>>
    /\ prodTasks' = [p \in 1..Len(prodTasks) |-> Cancel(prodTasks[p])]
    /\ offerTasks' = [o \in 1..Len(offerTasks) |-> Cancel(offerTasks[o])]
    /\ semValue' = max_requests
    /\ waiters' = <<>>
    /\ dbLock' = Free

\* a storage call of main raises (sqlite3.OperationalError): nothing catches it
MainStorageFault ==
    /\ mainPc \in {"sink", "insert_category", "commit_category",
                   "insert_subcategory", "commit_subcategory"}
    /\ ~save_to_csv
    /\ faults < MaxStorageFaults
    /\ faults' = faults + 1
    /\ AbortRun
    /\ UNCHANGED <<config, up, down, run, walker, sinks, completed, fetched,
                   dbFirst>>

\* the product-list request put behind the gate: it takes a permit
FetchProductsRequestGated ==
    /\ mainPc = "fetch_products"
    /\ semValue > 0
    /\ semValue' = semValue - 1
    /\ mainPc' = "await_products"
    /\ fetched' = fetched \cup {ProductsEndpoint(CurrentSubcategory.id)}
    /\ UNCHANGED <<config, up, down, faults, run, walker, mainTxn, tasks,
                   waiters, dbLock, sinks, completed, dbFirst>>
\* line 205 / 22-23: the product-list request is sent; no permit is taken
FetchProductsRequest ==
    /\ mainPc = "fetch_products"
    /\ mainPc' = "await_products"
    /\ fetched' = fetched \cup {ProductsEndpoint(CurrentSubcategory.id)}
    /\ UNCHANGED <<config, up, down, faults, run, walker, mainTxn, tasks, gate,
                   dbLock, sinks, completed, dbFirst>>

ProductTask(product, subcategory_id) ==
    [product |-> product, subcategory_id |-> subcategory_id, pc |-> "start",
     txn |-> <<>>]

\* lines 23-28 and 206-208: the response arrives; one task per product is
\* created and gathered
FetchProductsResponse ==
    /\ mainPc = "await_products"
    /\ \E status \in Statuses(ProductsEndpoint(CurrentSubcategory.id)) :
          /\ Answered(ProductsEndpoint(CurrentSubcategory.id), status)
          /\ LET products_data ==
                     ProductsResult(status, ProductList(CurrentSubcategory.id))
             IN prodTasks' = [p \in 1..Len(products_data) |->
                                ProductTask(products_data[p], CurrentSubcategory.id)]
    /\ offerTasks' = <<>>
    /\ mainPc' = "gather"
    /\ UNCHANGED <<config, faults, run, walker, mainTxn, gate, dbLock, sinks,
                   completed, fetched, dbFirst>>

Finished(task) == task.pc = "done"
Raised(task) == task.pc = "raised"

\* a join that lets go as soon as one child has finished
GatherFirstCompleted(children) ==
    children = <<>> \/ \E c \in 1..Len(children) : Finished(children[c])
\* gather(*tasks, return_exceptions=True): exceptions are results like others
GatherReturnsExceptions(children) ==
    \A c \in 1..Len(children) : Finished(children[c]) \/ Raised(children[c])
\* asyncio.gather(*tasks): every child has finished
GatherReturns(children) == \A c \in 1..Len(children) : Finished(children[c])
\* asyncio.gather(*tasks): the first exception of a child is raised at once
GatherRaises(children) == \E c \in 1..Len(children) : Raised(children[c])

\* the nested walk handing down the id of the node it is in
WalkRecursionImmediateParent(subcategory, top_category_id) == subcategory.id
\* lines 211-212: the nested walk gets the same top_category_id
WalkRecursionParent(subcategory, top_category_id) == top_category_id

\* line 208 returns; lines 210-212: recurse into the nested subcategories
GatherProductsReturn ==
    /\ mainPc = "gather"
    /\ GatherReturns(prodTasks)
    /\ prodTasks' = <<>>
    /\ offerTasks' = <<>>
    /\ mainPc' = "sub_loop"
    /\ IF "subcategories" \in DOMAIN CurrentSubcategory
       THEN stack' = Append(stack,
                Frame(CurrentSubcategory.subcategories,
                      WalkRecursionParent(CurrentSubcategory,
                                          TopFrame.top_category_id)))
       ELSE stack' = [stack EXCEPT ![Len(stack)].i = @ + 1]
    /\ UNCHANGED <<config, up, down, faults, run, categories_data, catIdx,
                   subQueue, mainTxn, gate, dbLock, sinks, completed, fetched,
                   dbFirst>>

\* line 208 raises the exception of a product task; it is caught nowhere
\* (lines 198-249), so main ends with it
GatherProductsRaise ==
    /\ mainPc = "gather"
    /\ GatherRaises(prodTasks)
    /\ AbortRun
    /\ UNCHANGED <<config, up, down, faults, run, walker, sinks, completed,
                   fetched, dbFirst>>

\* the loop ending one category early
LoopFinishedEarly(idx, data) == idx >= Len(data)
\* lines 234 / 242: the `for` over categories_data is exhausted
LoopFinished(idx, data) == idx > Len(data)

\* line 249: print("Data insertion completed.")
Complete ==
    /\ mainPc = "category_loop"
    /\ LoopFinished(catIdx, categories_data)
    /\ completed' = completed + 1
    /\ mainPc' = "done"
    /\ dbFirst' = IF run = 1 THEN db ELSE dbFirst
    /\ UNCHANGED <<config, up, down, faults, run, walker, mainTxn, tasks, gate,
                   dbLock, sinks, fetched>>

(***************************************************************************)
(* insert_product_to_db: one task per product of the list.                 *)
(***************************************************************************)
OfferTask(p, offer_id, product) ==
    [parent |-> p, offer_id |-> offer_id, product_id |-> product.id,
     product_name |-> product.name, pc |-> "start", offer_details |-> EmptyObject,
     txn |-> <<>>]

\* a join that lets go as soon as one offer task has finished
OffersFirstCompleted(p) ==
    \E o \in 1..Len(offerTasks) :
        offerTasks[o].parent = p /\ Finished(offerTasks[o])
\* line 149: await asyncio.gather(*tasks) returns: every offer task finished
OffersReturned(p) ==
    \A o \in 1..Len(offerTasks) :
        offerTasks[o].parent = p => Finished(offerTasks[o])
\* line 149 raises the first exception of an offer task
OffersRaised(p) ==
    \E o \in 1..Len(offerTasks) :
        offerTasks[o].parent = p /\ Raised(offerTasks[o])

\* lines 147-149: one insert_offer_to_db task per offer, then the gather;
\* product['offers'] raises KeyError when the key is missing
SpawnOffers(p) ==
    LET product == prodTasks[p].product IN
    IF "offers" \in DOMAIN product
    THEN /\ offerTasks' = offerTasks \o
                [i \in 1..Len(product.offers) |->
                    OfferTask(p, product.offers[i].id, product)]
         /\ prodTasks' = [prodTasks EXCEPT
                ![p].pc = IF product.offers = <<>> THEN "done" ELSE "gather",
                ![p].txn = <<>>]
    ELSE /\ offerTasks' = offerTasks
         /\ prodTasks' = [prodTasks EXCEPT ![p].pc = "raised", ![p].txn = <<>>]

\* lines 137-143 (relational: the INSERT OR REPLACE is executed) or
\* lines 147-149 at once (tabular)
ProductStart(p) ==
    /\ prodTasks[p].pc = "start"
    /\ IF WritesRelational(save_to_csv)
       THEN /\ dbLock = Free
            /\ dbLock' = ProductConn(p)
            /\ LET stmt == ProductStatement(prodTasks[p].product,
                                            prodTasks[p].subcategory_id)
               IN /\ prodTasks' = [prodTasks EXCEPT ![p].pc = "commit",
                                                    ![p].txn = <<stmt>>]
                  /\ db' = ExecuteStatement(db, stmt)
            /\ offerTasks' = offerTasks
       ELSE /\ SpawnOffers(p)
            /\ UNCHANGED <<dbLock, db>>
    /\ UNCHANGED <<config, up, down, faults, run, mainPc, walker, mainTxn, gate,
                   schema, csvOpen, csvRows, csvOrigin, completed, fetched,
                   dbFirst>>

\* the product task going on to its offers with line 145 left out: the
\* connection closes without a commit and the row is rolled back
ProductCommitLeftOut(p) ==
    /\ prodTasks[p].pc = "commit"
    /\ db' = db
    /\ dbLock' = Free
    /\ SpawnOffers(p)
    /\ UNCHANGED <<config, up, down, faults, run, mainPc, walker, mainTxn, gate,
                   schema, csvOpen, csvRows, csvOrigin, completed, fetched,
                   dbFirst>>
\* line 145, then lines 147-149
ProductCommit(p) ==
    /\ prodTasks[p].pc = "commit"
    /\ db' = CommitTransaction(db, prodTasks[p].txn)
    /\ dbLock' = Free
    /\ SpawnOffers(p)
    /\ UNCHANGED <<config, up, down, faults, run, mainPc, walker, mainTxn, gate,
                   schema, csvOpen, csvRows, csvOrigin, completed, fetched,
                   dbFirst>>

\* a storage call of the product task raises; its transaction is rolled back
ProductStorageFault(p) ==
    /\ \/ prodTasks[p].pc = "start" /\ ~save_to_csv
       \/ prodTasks[p].pc = "commit"
    /\ faults < MaxStorageFaults
    /\ faults' = faults + 1
    /\ prodTasks' = [prodTasks EXCEPT ![p].pc = "raised", ![p].txn = <<>>]
    /\ dbLock' = IF dbLock = ProductConn(p) THEN Free ELSE dbLock
    /\ UNCHANGED <<config, up, down, run, mainPc, walker, mainTxn, offerTasks,
                   gate, sinks, completed, fetched, dbFirst>>

\* line 149 returns: insert_product_to_db is done
ProductGatherReturn(p) ==
    /\ prodTasks[p].pc = "gather"
    /\ OffersReturned(p)
    /\ prodTasks' = [prodTasks EXCEPT ![p].pc = "done"]
    /\ UNCHANGED <<config, up, down, faults, run, mainPc, walker, mainTxn,
                   offerTasks, gate, dbLock, sinks, completed, fetched, dbFirst>>

\* line 149 raises: insert_product_to_db ends with the exception
ProductGatherRaise(p) ==
    /\ prodTasks[p].pc = "gather"
    /\ OffersRaised(p)
    /\ prodTasks' = [prodTasks EXCEPT ![p].pc = "raised"]
    /\ UNCHANGED <<config, up, down, faults, run, mainPc, walker, mainTxn,
                   offerTasks, gate, dbLock, sinks, completed, fetched, dbFirst>>

(***************************************************************************)
(* insert_offer_to_db and fetch_offer_details: one task per offer.         *)
(***************************************************************************)
\* the request going out without asking the semaphore
AcquireUngated(value, queue) == TRUE
\* asyncio.Semaphore.acquire: a permit is taken at once when one is free and
\* nobody waits; otherwise the task queues
AcquiresAtOnce(value, queue) == value > 0 /\ queue = <<>>

\* a release written on the success path only
ReleasesOnSuccessOnly(status) == status = 200
\* lines 33-39: `async with semaphore` releases on every exit of the block
ReleasesPermit(status) == TRUE

\* asyncio.Semaphore.release: the permit goes to the first waiter, if any
Release ==
    IF waiters # <<>>
    THEN /\ waiters' = Tail(waiters)
         /\ semValue' = semValue
    ELSE /\ waiters' = waiters
         /\ semValue' = semValue + 1

\* lines 153-154, 32-34: the task reaches `async with semaphore`; with a
\* permit it sends the request
OfferStart(o) ==
    /\ offerTasks[o].pc = "start"
    /\ IF AcquiresAtOnce(semValue, waiters)
       THEN /\ semValue' = semValue - 1
            /\ waiters' = waiters
            /\ offerTasks' = [offerTasks EXCEPT ![o].pc = "fetching"]
            /\ fetched' = fetched \cup {OfferEndpoint(offerTasks[o].offer_id)}
       ELSE /\ semValue' = semValue
            /\ waiters' = Append(waiters, o)
            /\ offerTasks' = [offerTasks EXCEPT ![o].pc = "waiting"]
            /\ fetched' = fetched
    /\ UNCHANGED <<config, up, down, faults, run, mainPc, walker, mainTxn,
                   prodTasks, dbLock, sinks, completed, dbFirst>>

\* line 33-34: a waiter that was handed a permit sends its request
OfferGranted(o) ==
    /\ offerTasks[o].pc = "waiting"
    /\ \A w \in 1..Len(waiters) : waiters[w] # o
    /\ offerTasks' = [offerTasks EXCEPT ![o].pc = "fetching"]
    /\ fetched' = fetched \cup {OfferEndpoint(offerTasks[o].offer_id)}
    /\ UNCHANGED <<config, up, down, faults, run, mainPc, walker, mainTxn,
                   prodTasks, gate, dbLock, sinks, completed, dbFirst>>

\* fetch_offer_details handing the body on whatever the status
OfferResultIgnoringStatus(status, payload) == payload
\* lines 35-39: the payload on 200, {} otherwise
OfferResult(status, payload) == IF status = 200 THEN payload ELSE EmptyObject

\* lines 34-39, 153-154: the response arrives and the permit is released;
\* the task then closes its ClientSession
OfferResponse(o) ==
    /\ offerTasks[o].pc = "fetching"
    /\ \E status \in Statuses(OfferEndpoint(offerTasks[o].offer_id)) :
          /\ Answered(OfferEndpoint(offerTasks[o].offer_id), status)
          /\ IF ReleasesPermit(status) THEN Release ELSE UNCHANGED gate
          /\ offerTasks' = [offerTasks EXCEPT
                ![o].pc = "ingest",
                ![o].offer_details =
                    OfferResult(status, OfferDetail(offerTasks[o].offer_id))]
    /\ UNCHANGED <<config, faults, run, mainPc, walker, mainTxn, prodTasks,
                   dbLock, sinks, completed, fetched, dbFirst>>

\* the tabular branch yielding to the event loop after every row
OfferIngestRowByRow(o) ==
    /\ offerTasks[o].pc = "ingest"
    /\ LET offer_details == offerTasks[o].offer_details
           rows == CsvRows(offer_details, offerTasks[o].product_name)
           k == Len(offerTasks[o].txn) + 1
       IN IF offer_details = EmptyObject \/ (save_to_csv /\ rows = <<>>)
          THEN /\ offerTasks' = [offerTasks EXCEPT ![o].pc = "done"]
               /\ UNCHANGED <<csvRows, csvOrigin>>
          ELSE IF save_to_csv
          THEN /\ csvRows' = Append(csvRows, rows[k])
               /\ csvOrigin' = Append(csvOrigin, CsvOrigins(offer_details)[k])
               /\ offerTasks' = [offerTasks EXCEPT
                     ![o].pc = IF k = Len(rows) THEN "done" ELSE "ingest",
                     ![o].txn = IF k = Len(rows) THEN <<>>
                                ELSE Append(offerTasks[o].txn, rows[k])]
          ELSE /\ offerTasks' = [offerTasks EXCEPT ![o].pc = "write"]
               /\ UNCHANGED <<csvRows, csvOrigin>>
    /\ UNCHANGED <<config, up, down, faults, run, mainPc, walker, mainTxn,
                   prodTasks, gate, dbLock, db, schema, csvOpen, completed,
                   fetched, dbFirst>>
\* lines 156-172: an empty payload ends the task; the tabular sink appends
\* the rows of all stores in one go; the relational sink opens its connection
OfferIngest(o) ==
    /\ offerTasks[o].pc = "ingest"
    /\ LET offer_details == offerTasks[o].offer_details
       IN IF offer_details = EmptyObject
          THEN /\ offerTasks' = [offerTasks EXCEPT ![o].pc = "done"]
               /\ UNCHANGED <<csvRows, csvOrigin>>
          ELSE IF save_to_csv
          THEN /\ csvRows' = csvRows \o
                      CsvRows(offer_details, offerTasks[o].product_name)
               /\ csvOrigin' = csvOrigin \o CsvOrigins(offer_details)
               /\ offerTasks' = [offerTasks EXCEPT ![o].pc = "done"]
          ELSE /\ offerTasks' = [offerTasks EXCEPT ![o].pc = "write"]
               /\ UNCHANGED <<csvRows, csvOrigin>>
    /\ UNCHANGED <<config, up, down, faults, run, mainPc, walker, mainTxn,
                   prodTasks, gate, dbLock, db, schema, csvOpen, completed,
                   fetched, dbFirst>>

\* lines 172-193: the next cursor.execute of the offer's transaction
OfferExecute(o) ==
    /\ offerTasks[o].pc = "write"
    /\ LET stmts == OfferStatements(offerTasks[o].offer_details,
                                    offerTasks[o].product_id)
           txn == offerTasks[o].txn
           stmt == stmts[Len(txn) + 1]
       IN /\ IF txn = <<>> THEN dbLock = Free ELSE dbLock = OfferConn(o)
          /\ dbLock' = OfferConn(o)
          /\ db' = ExecuteStatement(db, stmt)
          /\ offerTasks' = [offerTasks EXCEPT
                ![o].txn = Append(txn, stmt),
                ![o].pc = IF Len(txn) + 1 = Len(stmts) THEN "commit" ELSE "write"]
    /\ UNCHANGED <<config, up, down, faults, run, mainPc, walker, mainTxn,
                   prodTasks, gate, schema, csvOpen, csvRows, csvOrigin,
                   completed, fetched, dbFirst>>

\* line 195: conn.commit()
OfferCommit(o) ==
    /\ offerTasks[o].pc = "commit"
    /\ db' = CommitTransaction(db, offerTasks[o].txn)
    /\ dbLock' = Free
    /\ offerTasks' = [offerTasks EXCEPT ![o].pc = "done", ![o].txn = <<>>]
    /\ UNCHANGED <<config, up, down, faults, run, mainPc, walker, mainTxn,
                   prodTasks, gate, schema, csvOpen, csvRows, csvOrigin,
                   completed, fetched, dbFirst>>

\* a storage call of the offer task raises; its transaction is rolled back
OfferStorageFault(o) ==
    /\ offerTasks[o].pc \in {"write", "commit"}
    /\ faults < MaxStorageFaults
    /\ faults' = faults + 1
    /\ offerTasks' = [offerTasks EXCEPT ![o].pc = "raised", ![o].txn = <<>>]
    /\ dbLock' = IF dbLock = OfferConn(o) THEN Free ELSE dbLock
    /\ UNCHANGED <<config, up, down, run, mainPc, walker, mainTxn, prodTasks,
                   gate, sinks, completed, fetched, dbFirst>>

(***************************************************************************)
(* The end of a run.                                                       *)
(***************************************************************************)
\* the script is started again on the same database file and the same remote
Rerun ==
    /\ mainPc = "done"
    /\ run < MaxRuns
    /\ run' = run + 1
    /\ mainPc' = "start"
    /\ categories_data' = <<>>
    /\ catIdx' = 1
    /\ csvOpen' = FALSE
    /\ fetched' = {}
    /\ semValue' = max_requests
    /\ UNCHANGED <<config, up, down, faults, stack, subQueue, mainTxn, tasks,
                   waiters, dbLock, db, schema, csvRows, csvOrigin, completed,
                   dbFirst>>

Next ==
    \/ FetchCategoriesRequest
    \/ FetchCategoriesResponse
    \/ CreateDatabaseAndTables
    \/ OpenCsvFile
    \/ NextCategory
    \/ InsertCategoryExecute
    \/ InsertCategoryCommit
    \/ NextSubcategory
    \/ ReturnFromWalk
    \/ InsertSubcategoryExecute
    \/ InsertSubcategoryCommit
    \/ MainStorageFault
    \/ FetchProductsRequest
    \/ FetchProductsResponse
    \/ GatherProductsReturn
    \/ GatherProductsRaise
    \/ Complete
    \/ Rerun
    \/ \E p \in 1..Len(prodTasks) : ProductStart(p)
    \/ \E p \in 1..Len(prodTasks) : ProductCommit(p)
    \/ \E p \in 1..Len(prodTasks) : ProductStorageFault(p)
    \/ \E p \in 1..Len(prodTasks) : ProductGatherReturn(p)
    \/ \E p \in 1..Len(prodTasks) : ProductGatherRaise(p)
    \/ \E o \in 1..Len(offerTasks) : OfferStart(o)
    \/ \E o \in 1..Len(offerTasks) : OfferGranted(o)
    \/ \E o \in 1..Len(offerTasks) : OfferResponse(o)
    \/ \E o \in 1..Len(offerTasks) : OfferIngest(o)
    \/ \E o \in 1..Len(offerTasks) : OfferExecute(o)
    \/ \E o \in 1..Len(offerTasks) : OfferCommit(o)
    \/ \E o \in 1..Len(offerTasks) : OfferStorageFault(o)

Spec == Init /\ [][Next]_vars

\* asyncio's loop runs every coroutine that can take a step, and every issued
\* request and storage call resolves
FairSpec == Spec /\ WF_vars(Next)

(***************************************************************************)
(* Vocabulary of the properties.                                           *)
(***************************************************************************)
OfferIds == 1..Len(offerTasks)
ProductIds == 1..Len(prodTasks)
Waiting == {waiters[w] : w \in 1..Len(waiters)}
\* offer tasks inside `async with semaphore`: permit acquired, response not
\* yet resolved
Holders ==
    {o \in OfferIds : \/ offerTasks[o].pc = "fetching"
                      \/ offerTasks[o].pc = "waiting" /\ o \notin Waiting}

RECURSIVE SubtreeIds(_)
RECURSIVE ListIds(_)
SubtreeIds(node) ==
    {node.id} \cup (IF "subcategories" \in DOMAIN node
                    THEN ListIds(node.subcategories) ELSE {})
ListIds(list) ==
    IF list = <<>> THEN {} ELSE SubtreeIds(Head(list)) \cup ListIds(Tail(list))
\* the ids of the subcategories below a top-level category, at any depth
DescendantIds(category) == SubtreeIds(category) \ {category.id}

(***************************************************************************)
(* C1  Concurrency bound: at no instant do more offer-detail fetches hold  *)
(* a permit with their response outstanding than the gate size             *)
(* max_requests, whatever the catalog and the interleaving.                *)
(***************************************************************************)
C1_ConcurrencyBound == Cardinality(Holders) <= max_requests

\* the gate is full, of size 2, and a further offer task is kept waiting
C1_Witness ==
    /\ max_requests = 2
    /\ Cardinality({o \in OfferIds : offerTasks[o].pc = "fetching"}) = 2
    /\ waiters # <<>>

(***************************************************************************)
(* C2  No permit leak: the free permits always equal max_requests minus    *)
(* the offer fetches holding one; they never exceed max_requests and are   *)
(* all back when no offer fetch is outstanding, after a 200 as after a     *)
(* non-200 response.                                                       *)
(***************************************************************************)
C2_NoPermitLeak ==
    /\ semValue = max_requests - Cardinality(Holders)
    /\ semValue <= max_requests
    /\ semValue >= 0
    /\ Holders = {} => semValue = max_requests

\* an offer fetch got a non-200, another a 200, both have left the gate and
\* every permit is back
C2_Witness ==
    /\ \E o \in OfferIds :
          /\ offerTasks[o].pc = "done"
          /\ OfferEndpoint(offerTasks[o].offer_id) \in down
    /\ \E o \in OfferIds :
          /\ offerTasks[o].pc = "done"
          /\ OfferEndpoint(offerTasks[o].offer_id) \in up
    /\ Holders = {}
    /\ semValue = max_requests

(***************************************************************************)
(* C3  Flattening invariant: in relational mode every stored subcategory   *)
(* row has parent_id equal to the id of the top-level category in whose    *)
(* subtree it lies, at any nesting depth, and every activation of the      *)
(* walker carries the id of the category being walked.                     *)
(***************************************************************************)
C3_Flattening ==
    /\ \A r \in db.subcategories :
          \E c \in 1..Len(remote) :
              /\ r.id \in DescendantIds(remote[c])
              /\ r.parent_id = remote[c].id
    /\ \A f \in 1..Len(stack) :
          stack[f].top_category_id = CurrentCategory.id
    /\ \A q \in 1..Len(subQueue) :
          subQueue[q].row.parent_id = CurrentCategory.id

\* subcategory 12, three levels below category 1 (10 > 11 > 12), is stored
\* with parent_id 1 while the walker is three activations deep
C3_Witness ==
    /\ [id |-> 12, name |-> "n", parent_id |-> 1] \in db.subcategories
    /\ [id |-> 11, name |-> "n", parent_id |-> 1] \in db.subcategories
    /\ Len(stack) = 3

AllTasks == {prodTasks[p] : p \in ProductIds} \cup {offerTasks[o] : o \in OfferIds}
ProductListFetched(node) ==
    \A id \in SubtreeIds(node) : ProductsEndpoint(id) \in fetched
ProductListUntouched(node) ==
    \A id \in SubtreeIds(node) : ProductsEndpoint(id) \notin fetched

\* in every list being walked, the subtrees before the current position have
\* had all their product lists requested and those after it none
WalkedInSourceOrder ==
    \A f \in 1..Len(stack) :
        \A j \in 1..Len(stack[f].subcategories) :
            /\ j < stack[f].i => ProductListFetched(stack[f].subcategories[j])
            /\ j > stack[f].i => ProductListUntouched(stack[f].subcategories[j])

\* product and offer tasks exist only while the walker waits in the gather of
\* the one subcategory they belong to
TasksOfCurrentSubcategoryOnly ==
    /\ mainPc \notin {"gather", "aborted"} =>
          prodTasks = <<>> /\ offerTasks = <<>>
    /\ \A p \in ProductIds : prodTasks[p].subcategory_id = CurrentSubcategory.id
    /\ \A o \in OfferIds : offerTasks[o].parent \in ProductIds

\* the walker leaves the gather of line 208 normally
GatherLeft == mainPc = "gather" /\ mainPc' = "sub_loop"

(***************************************************************************)
(* C4  Subcategory ordering: the subcategories of a list are walked one    *)
(* after the other in source order; the walker leaves the gather of a      *)
(* subcategory, and so requests the next product list, only when every     *)
(* product task and every offer task of that subcategory has finished and, *)
(* for the next sibling, when the nested walk has returned; tasks of two   *)
(* subcategories are never in flight together.                             *)
(***************************************************************************)
C4_SubcategoryOrdering ==
    /\ [](WalkedInSourceOrder /\ TasksOfCurrentSubcategoryOnly)
    /\ [][GatherLeft => \A t \in AllTasks : Finished(t)]_vars
    /\ [][mainPc' = "await_products" => prodTasks = <<>> /\ offerTasks = <<>>]_vars

\* the product list of subcategory 13 is requested after the whole subtree of
\* its elder sibling 10 (10, 11, 12) was walked
C4_Witness ==
    /\ remote = CatalogDeep
    /\ mainPc = "await_products"
    /\ CurrentSubcategory.id = 13
    /\ {ProductsEndpoint(10), ProductsEndpoint(11), ProductsEndpoint(12)}
          \subseteq fetched
    /\ OfferEndpoint(1002) \in fetched

(***************************************************************************)
(* C5  Category ordering: the top-level categories are walked one at a     *)
(* time in the order of the category list; nothing of a later category is  *)
(* requested or written before the current one is finished, and the        *)
(* completion message is printed only when every category has been walked  *)
(* to its end.                                                             *)
(***************************************************************************)
CategoryFetched(category) ==
    \A id \in DescendantIds(category) : ProductsEndpoint(id) \in fetched
CategoryUntouched(category) ==
    /\ \A id \in DescendantIds(category) : ProductsEndpoint(id) \notin fetched
    /\ run = 1 =>
          /\ \A r \in db.categories : r.id # category.id
          /\ \A r \in db.subcategories : r.id \notin DescendantIds(category)

C5_State ==
    /\ \A k \in 1..Len(categories_data) :
          /\ k < catIdx => CategoryFetched(categories_data[k])
          /\ k > catIdx => CategoryUntouched(categories_data[k])
    /\ stack # <<>> => catIdx <= Len(categories_data)
    /\ mainTxn # <<>> => catIdx <= Len(categories_data)
    /\ mainPc = "done" =>
          /\ \A k \in 1..Len(categories_data) :
                /\ CategoryFetched(categories_data[k])
                /\ ~save_to_csv =>
                      \E r \in db.categories : r.id = categories_data[k].id
          /\ stack = <<>> /\ prodTasks = <<>> /\ offerTasks = <<>>
          /\ completed = run

C5_CategoryOrdering ==
    /\ []C5_State
    /\ [][catIdx' # catIdx =>
            \/ catIdx' = 1
            \/ /\ catIdx' = catIdx + 1
               /\ CategoryFetched(CurrentCategory)
               /\ prodTasks = <<>> /\ offerTasks = <<>>]_vars
    /\ [][completed' # completed =>
            completed' = completed + 1 /\ catIdx > Len(categories_data)]_vars

\* category 2 is being walked after category 1 was finished, category 3
\* still untouched
C5_Witness ==
    /\ remote = CatalogDeep
    /\ ~save_to_csv
    /\ run = 1
    /\ catIdx = 2
    /\ mainPc = "gather"
    /\ \E r \in db.products : r.id = 102
    /\ \E r \in db.subcategories : r.id = 13

(***************************************************************************)
(* C6  Fan-out and join of product ingestion: a product task creates one   *)
(* offer task per offer of its payload, in order, and is done only when    *)
(* every one of them is done; a finished product task has no offer task    *)
(* holding or waiting for a permit, or with an open transaction.           *)
(***************************************************************************)
ChildIds(p) == {o \in OfferIds : offerTasks[o].parent = p}

C6_FanOutJoin ==
    \A p \in ProductIds :
        /\ prodTasks[p].pc \in {"gather", "done"} =>
              /\ "offers" \in DOMAIN prodTasks[p].product
              /\ Cardinality(ChildIds(p)) = Len(prodTasks[p].product.offers)
              /\ \A i \in 1..Len(prodTasks[p].product.offers) :
                    Cardinality({o \in ChildIds(p) :
                        offerTasks[o].offer_id = prodTasks[p].product.offers[i].id
                        /\ Cardinality({c \in ChildIds(p) : c < o}) = i - 1}) = 1
        /\ prodTasks[p].pc \in {"start", "commit"} => ChildIds(p) = {}
        /\ prodTasks[p].pc = "done" =>
              \A o \in ChildIds(p) :
                  /\ Finished(offerTasks[o])
                  /\ o \notin Holders
                  /\ o \notin Waiting
                  /\ offerTasks[o].txn = <<>>
                  /\ dbLock # OfferConn(o)

\* the product with three offers has returned, all three fetched (one of
\* them under a gate of one permit), while main still waits in the gather
C6_Witness ==
    /\ max_requests = 1
    /\ mainPc = "gather"
    /\ \E p \in ProductIds :
          /\ prodTasks[p].pc = "done"
          /\ Cardinality(ChildIds(p)) = 3
          /\ \A o \in ChildIds(p) : OfferEndpoint(offerTasks[o].offer_id) \in fetched

\* the transactions that are open: executed, not yet committed
OpenTransactions ==
    {mainTxn} \cup {prodTasks[p].txn : p \in ProductIds}
              \cup {offerTasks[o].txn : o \in OfferIds}

(***************************************************************************)
(* C7  Sink exclusivity: the mode never changes; in tabular mode the       *)
(* database stays untouched (no schema, no row, no transaction) while rows *)
(* are exported; in relational mode the CSV file is never opened and no    *)
(* row is appended.                                                        *)
(***************************************************************************)
C7_State ==
    /\ save_to_csv =>
          /\ db = EmptyDb
          /\ ~schema
          /\ dbLock = Free
          /\ OpenTransactions = {<<>>}
    /\ ~save_to_csv =>
          /\ ~csvOpen
          /\ csvRows = <<>>

C7_SinkExclusivity ==
    /\ []C7_State
    /\ [][save_to_csv' = save_to_csv]_vars

\* a tabular run has completed: product lists and offers were fetched and
\* three rows exported, and the database is as it was
C7_Witness ==
    /\ save_to_csv
    /\ mainPc = "done"
    /\ Len(csvRows) >= 3
    /\ \E e \in fetched : e[1] = "offer"
    /\ db = EmptyDb

(***************************************************************************)
(* C8  Idempotent upsert: no table ever holds two rows with one primary    *)
(* key; committing a transaction a second time, or committing rows that    *)
(* are already stored, leaves the stored rows as they are; and a second    *)
(* complete run against the unchanged remote ends with exactly the rows    *)
(* of the first.                                                           *)
(***************************************************************************)
PrimaryKeysUnique ==
    \A t \in TableNames : \A r1, r2 \in db[t] :
        PrimaryKey(t, r1) = PrimaryKey(t, r2) => r1 = r2

AlreadyStored(txn) == \A i \in 1..Len(txn) : txn[i].row \in db[txn[i].table]

C8_IdempotentUpsert ==
    /\ PrimaryKeysUnique
    /\ \A txn \in OpenTransactions :
          /\ CommitTransaction(CommitTransaction(db, txn), txn)
                = CommitTransaction(db, txn)
          /\ AlreadyStored(txn) => CommitTransaction(db, txn) = db
    /\ mainPc = "done" /\ run > 1 => db = dbFirst

\* the second run over the deep catalog has completed; product 100, listed
\* by subcategories 10 and 13, is stored once
C8_Witness ==
    /\ remote = CatalogDeep
    /\ ~save_to_csv
    /\ run = 2
    /\ mainPc = "done"
    /\ Cardinality(db.products) = 3
    /\ Cardinality(db.offers) = 4
    /\ Cardinality(db.shops) = 2

(***************************************************************************)
(* C9  Empty-on-failure at the root: after a non-200 answer to the         *)
(* category-list request the run has an empty category list, stores no     *)
(* category, requests no product list and no offer detail, raises nothing  *)
(* and goes on to print the completion message (unless a storage call      *)
(* fails, which is a different failure).                                   *)
(***************************************************************************)
RootFailed == CategoriesEndpoint \in down

C9_State ==
    RootFailed =>
        /\ categories_data = <<>>
        /\ db.categories = {}
        /\ fetched \subseteq {CategoriesEndpoint}
        /\ stack = <<>> /\ prodTasks = <<>> /\ offerTasks = <<>>
        /\ faults = 0 => mainPc # "aborted"

C9_EmptyOnRootFailure ==
    /\ []C9_State
    /\ (RootFailed /\ faults = 0) ~> (mainPc = "done" \/ faults > 0)

\* the relational run whose category request failed has created its schema,
\* stored nothing and printed the completion message
C9_Witness ==
    /\ RootFailed
    /\ ~save_to_csv
    /\ schema
    /\ mainPc = "done"
    /\ completed = 1
    /\ db = EmptyDb

(***************************************************************************)
(* C10  Offer transaction atomicity: in every committed state of the       *)
(* database, an offer row comes with a shop row and an offer_shop_amount   *)
(* row for every store of the offer's availability list; no committed      *)
(* state shows the offer with only part of them.                           *)
(***************************************************************************)
StoresOf(offer_id) == OfferDetail(offer_id).availability_info.offer_store_amount

C10_OfferAtomicity ==
    \A r \in db.offers :
        \A i \in 1..Len(StoresOf(r.id)) :
            /\ \E shop \in db.shops : shop.id = StoresOf(r.id)[i].shop_id
            /\ AmountStatement(OfferDetail(r.id), StoresOf(r.id)[i]).row
                  \in db.offer_shop_amount

\* offer 1000 is committed with the rows of both its stores while the
\* transaction of offer 1001 is executed and not committed: nothing of 1001
\* is visible
C10_Witness ==
    /\ \E r \in db.offers : r.id = 1000
    /\ Cardinality(db.offer_shop_amount) = 2
    /\ Cardinality(db.shops) = 2
    /\ \A r \in db.offers : r.id # 1001
    /\ \E o \in OfferIds :
          /\ offerTasks[o].offer_id = 1001
          /\ offerTasks[o].pc = "commit"
          /\ Len(offerTasks[o].txn) = 3

(***************************************************************************)
(* C11  Discount derivation: every stored offer has discount = TRUE        *)
(* exactly when its discount_price is strictly below its retail_price;     *)
(* equal prices are stored with discount = FALSE.                          *)
(***************************************************************************)
C11_DiscountDerivation ==
    \A r \in db.offers :
        /\ r.discount \in BOOLEAN
        /\ r.discount <=> (r.discount_price < r.retail_price)
        /\ r.discount_price = r.retail_price => ~r.discount

\* offer 1000 (retail 100, discount price 80) is stored as a discount, offer
\* 1001 (100, 100) and offer 1002 (50, 60) are not
C11_Witness ==
    /\ \E r \in db.offers :
          r.id = 1000 /\ r.retail_price = 100 /\ r.discount_price = 80 /\ r.discount
    /\ \E r \in db.offers :
          r.id = 1001 /\ r.retail_price = 100 /\ r.discount_price = 100 /\ ~r.discount
    /\ \E r \in db.offers :
          r.id = 1002 /\ r.retail_price = 50 /\ r.discount_price = 60 /\ ~r.discount

\* the offers whose detail request was answered with a 200, and the
\* (offer, shop) pairs of their payloads
FetchedOffers == {e[2] : e \in {x \in up : x[1] = "offer"}}

FetchedPairs ==
    UNION {{<<offer_id, StoresOf(offer_id)[i].shop_id>> :
                i \in 1..Len(StoresOf(offer_id))} : offer_id \in FetchedOffers}

Occurrences(seq, x) == Cardinality({i \in DOMAIN seq : seq[i] = x})

(***************************************************************************)
(* C12  Tabular export, one record per (offer, shop) pair: when a tabular  *)
(* run has completed, the export holds exactly one row for every (offer,   *)
(* shop) pair of a successfully fetched offer detail, none missing and     *)
(* none twice, also when several subcategories list the same product.      *)
(***************************************************************************)
C12_OneRowPerOfferShop ==
    (mainPc = "done" /\ save_to_csv) =>
        /\ \A pair \in FetchedPairs : Occurrences(csvOrigin, pair) = 1
        /\ \A i \in DOMAIN csvOrigin : csvOrigin[i] \in FetchedPairs

(***************************************************************************)
(* C13  Missing optional collections are not errors: a product payload     *)
(* without `offers` and a node without `subcategories` count as having an  *)
(* empty collection; no task raises over it and the run is not stopped by  *)
(* it (only a failing storage call raises).                                *)
(***************************************************************************)
C13_MissingCollectionsAreEmpty ==
    /\ \A p \in ProductIds :
          ("offers" \notin DOMAIN prodTasks[p].product /\ Raised(prodTasks[p]))
              => faults > 0
    /\ mainPc = "aborted" => faults > 0

\* the subcategories, at any depth, of the category list the run works on
WalkedIds == UNION {DescendantIds(categories_data[c]) : c \in 1..Len(categories_data)}

\* the offers listed by the products of a product list
ListedOffers(products) ==
    UNION {IF "offers" \in DOMAIN products[i]
           THEN {products[i].offers[j].id : j \in 1..Len(products[i].offers)}
           ELSE {} : i \in 1..Len(products)}

\* nothing of an offer whose detail request failed, or of a product list
\* whose request failed, is written, and such a task never opens a transaction
FailedFetchWritesNothing ==
    /\ \A o \in OfferIds :
          OfferEndpoint(offerTasks[o].offer_id) \in down =>
              /\ offerTasks[o].pc \notin {"write", "commit", "raised"}
              /\ offerTasks[o].offer_details = EmptyObject
              /\ offerTasks[o].txn = <<>>
    /\ \A r \in db.offers : OfferEndpoint(r.id) \notin down
    /\ \A r \in db.offer_shop_amount : OfferEndpoint(r.offer_id) \notin down
    /\ \A i \in DOMAIN csvOrigin : OfferEndpoint(csvOrigin[i][1]) \notin down
    /\ \A p \in ProductIds :
          ProductsEndpoint(prodTasks[p].subcategory_id) \notin down
    /\ \A r \in db.products : ProductsEndpoint(r.subcategory_id) \notin down
    /\ (mainPc = "gather" /\ ProductsEndpoint(CurrentSubcategory.id) \in down)
          => prodTasks = <<>> /\ offerTasks = <<>>

\* at the end of the run everything whose fetch succeeded is in the sink,
\* whatever failed beside it
SiblingsIngested ==
    mainPc = "done" =>
        \A s \in WalkedIds :
            /\ ~save_to_csv => \E r \in db.subcategories : r.id = s
            /\ ProductsEndpoint(s) \in fetched
            /\ ProductsEndpoint(s) \in up =>
                  /\ ~save_to_csv =>
                        \A i \in 1..Len(ProductList(s)) :
                            \E r \in db.products : r.id = ProductList(s)[i].id
                  /\ \A id \in ListedOffers(ProductList(s)) :
                        /\ OfferEndpoint(id) \in up \cup down
                        /\ OfferEndpoint(id) \in up =>
                              IF save_to_csv
                              THEN \A k \in 1..Len(StoresOf(id)) :
                                      Occurrences(csvOrigin,
                                          <<id, StoresOf(id)[k].shop_id>>) >= 1
                              ELSE \E r \in db.offers : r.id = id

RaisedTasks == {t \in AllTasks : Raised(t)}

IsPrefix(s, t) == Len(s) <= Len(t) /\ SubSeq(t, 1, Len(s)) = s

\* a non-200 answer raises nothing and stops nothing; the request is not
\* sent again; what the sinks hold stays
SkipAndContinue ==
    /\ down' # down =>
          /\ mainPc' # "aborted"
          /\ RaisedTasks' \subseteq RaisedTasks
          /\ fetched' = fetched
    /\ \A o \in OfferIds :
          (offerTasks[o].pc \in {"ingest", "done"} /\ o \in DOMAIN offerTasks')
              => offerTasks'[o].pc \notin {"start", "waiting", "fetching"}
    /\ mainPc = "await_products" => mainPc' \in {"await_products", "gather"}
    /\ (mainPc' = "await_products" /\ mainPc # "await_products")
          => ProductsEndpoint(CurrentSubcategory.id) \notin fetched
    /\ mainPc # "sink" => IsPrefix(csvOrigin, csvOrigin') /\ IsPrefix(csvRows, csvRows')
    /\ \A t \in TableNames : \A r \in db[t] :
          \E r2 \in db'[t] : PrimaryKey(t, r2) = PrimaryKey(t, r)

ProductsInFlight ==
    {p \in ProductIds : prodTasks[p].pc \in {"start", "commit", "gather"}}

\* a step of an offer task at the gate: it reaches `async with semaphore`
\* or leaves it
GateStep ==
    \E o \in OfferIds :
        /\ o \in DOMAIN offerTasks'
        /\ offerTasks[o].pc \in {"start", "fetching"}
        /\ offerTasks'[o].pc \in {"waiting", "fetching", "ingest"}
        /\ offerTasks'[o].pc # offerTasks[o].pc

\* the permits and the queue change in a gate step only (and when the
\* tasks of an aborted run are cancelled); steps of main, of product tasks
\* and of the storage part of an offer task leave them alone
OnlyOfferFetchesTouchGate ==
    /\ gate' # gate => GateStep \/ mainPc' = "aborted"
    /\ (mainPc' # mainPc /\ mainPc' # "aborted") => gate' = gate
    /\ (prodTasks' # prodTasks /\ mainPc' # "aborted") => gate' = gate
    /\ (mainPc = "await_products" /\ mainPc' = "gather") =>
          /\ Len(prodTasks') =
                IF ProductsEndpoint(CurrentSubcategory.id) \in up'
                THEN Len(ProductList(CurrentSubcategory.id)) ELSE 0
          /\ \A p \in DOMAIN prodTasks' : prodTasks'[p].pc = "start"

\* whatever the state of the gate, the requests of main and the storage
\* calls can take their step (a storage call waits for the database lock
\* only)
NeverBlockedByGate ==
    /\ mainPc = "start" => ENABLED FetchCategoriesRequest
    /\ mainPc = "fetch_products" => ENABLED FetchProductsRequest
    /\ mainPc = "await_products" => ENABLED FetchProductsResponse
    /\ \A p \in ProductIds :
          /\ (prodTasks[p].pc = "start" /\ (save_to_csv \/ dbLock = Free))
                => ENABLED ProductStart(p)
          /\ prodTasks[p].pc = "commit" => ENABLED ProductCommit(p)
    /\ \A o \in OfferIds :
          /\ offerTasks[o].pc = "ingest" => ENABLED OfferIngest(o)
          /\ (offerTasks[o].pc = "write"
                /\ dbLock \in {Free, OfferConn(o)}) => ENABLED OfferExecute(o)
          /\ offerTasks[o].pc = "commit" => ENABLED OfferCommit(o)

(***************************************************************************)
(* C15  Only offer-detail fetches are gated: the category-list request,    *)
(* the product-list requests and the storage writes take no permit, leave  *)
(* the permit count as it is and are never held up by the gate; the        *)
(* product tasks of a subcategory are all started at once, so more product *)
(* tasks can be in flight than the gate has permits.                       *)
(***************************************************************************)
C15_OnlyOfferFetchesGated ==
    /\ []NeverBlockedByGate
    /\ [][OnlyOfferFetchesTouchGate]_vars

\* gate of size 1, its permit taken by an offer fetch and a second offer
\* queued, while two product tasks are in flight and one of them is in the
\* middle of its storage write
C15_Witness ==
    /\ max_requests = 1
    /\ semValue = 0
    /\ waiters # <<>>
    /\ Cardinality(ProductsInFlight) = 2
    /\ \E p \in ProductIds : prodTasks[p].pc = "commit"

\* the export is a chain of whole blocks, each the rows of one offer for
\* all its stores in the order of its availability list
RECURSIVE WholeBlocks(_)
WholeBlocks(origins) ==
    \/ origins = <<>>
    \/ LET block == CsvOrigins(OfferDetail(origins[1][1]))
       IN /\ Len(block) <= Len(origins)
          /\ SubSeq(origins, 1, Len(block)) = block
          /\ WholeBlocks(SubSeq(origins, Len(block) + 1, Len(origins)))

\* the rows in the file are the rows of these blocks
RowsOfOrigins ==
    /\ Len(csvRows) = Len(csvOrigin)
    /\ \A i \in DOMAIN csvOrigin :
          \E k \in 1..Len(StoresOf(csvOrigin[i][1])) :
              /\ StoresOf(csvOrigin[i][1])[k].shop_id = csvOrigin[i][2]
              /\ csvRows[i] = CsvRow(OfferDetail(csvOrigin[i][1]),
                                     StoresOf(csvOrigin[i][1])[k], "p")

\* every step that writes to the file appends the whole block of one offer
\* task, which is finished by the same step
AppendsWholeBlock ==
    (csvRows' # csvRows /\ mainPc # "sink") =>
        \E o \in OfferIds :
            /\ offerTasks[o].pc = "ingest"
            /\ offerTasks' = [offerTasks EXCEPT ![o].pc = "done"]
            /\ csvRows' = csvRows \o CsvRows(offerTasks[o].offer_details,
                                             offerTasks[o].product_name)
            /\ csvOrigin' = csvOrigin \o CsvOrigins(offerTasks[o].offer_details)

(***************************************************************************)
(* C16  Tabular writer serialization: the rows of one offer are appended   *)
(* as one contiguous block, in the store order of its availability list;   *)
(* rows of concurrently running offer tasks never interleave inside a      *)
(* block, because the task appends them all in one step, without           *)
(* suspending in between.                                                  *)
(***************************************************************************)
C16_WriterSerialization ==
    /\ [](WholeBlocks(csvOrigin) /\ RowsOfOrigins)
    /\ [][AppendsWholeBlock]_vars

\* offers 1000 and 1001 were fetched side by side under a gate of 2; 1001,
\* created second, wrote first, and the two rows of 1000 follow as a block
C16_Witness ==
    /\ max_requests = 2
    /\ csvOrigin = << <<1001, 5>>, <<1000, 5>>, <<1000, 6>> >>
    /\ csvRows[2].availability_text = "few"
    /\ csvRows[3].availability_text = "many"

\* a storage call has failed (storage calls fail in relational runs only)
StorageFailed == faults > 0

\* once a storage call has failed the walker stands still: main starts no
\* subcategory and no category, requests no product list, prints nothing;
\* its only step left is the abort. The failing run is never completed.
StopsAtFailure ==
    StorageFailed' =>
        /\ mainPc' \in {mainPc, "aborted"}
        /\ walker' = walker
        /\ completed' = completed
        /\ run' = run
        /\ \A t \in {"categories", "subcategories"} : db'[t] = db[t]
        /\ {e \in fetched' : e[1] = "products"}
              = {e \in fetched : e[1] = "products"}

FailedRunNotCompleted ==
    StorageFailed =>
        /\ ~save_to_csv
        /\ mainPc # "done"
        /\ completed = run - 1
        /\ \A p \in ProductIds : Raised(prodTasks[p]) => mainPc \in {"gather", "aborted"}

(***************************************************************************)
(* C17  Storage write failure aborts the run: in relational mode a storage *)
(* write that fails in an offer task or a product task is caught nowhere;  *)
(* it comes out of the product join and of both loops and ends main. No    *)
(* further subcategory or category is started and the completion message   *)
(* of that run is never printed.                                           *)
(***************************************************************************)
C17_StorageFailureAborts ==
    /\ []FailedRunNotCompleted
    /\ [][StopsAtFailure]_vars
    /\ StorageFailed ~> (mainPc = "aborted")

\* the commit of an offer of product 100 failed under subcategory 10: the
\* exception went through the product task to main, which ended with
\* subcategory 13 and the categories 2 and 3 not started and nothing printed
C17_Witness ==
    /\ remote = CatalogDeep
    /\ mainPc = "aborted"
    /\ faults = 1
    /\ \E o \in OfferIds :
          /\ Raised(offerTasks[o])
          /\ Raised(prodTasks[offerTasks[o].parent])
    /\ \E o \in OfferIds : offerTasks[o].pc = "cancelled"
    /\ catIdx = 1
    /\ Len(stack) = 1
    /\ Cardinality(db.categories) = 1
    /\ Cardinality(db.subcategories) = 3
    /\ ProductsEndpoint(13) \notin fetched
    /\ completed = 0

\* every reference of a committed row leads to a committed row
ReferencesResolve ==
    /\ \A r \in db.subcategories : \E c \in db.categories : c.id = r.parent_id
    /\ \A r \in db.products :
          \E sub \in db.subcategories : sub.id = r.subcategory_id
    /\ \A r \in db.offers : \E product \in db.products : product.id = r.product_id
    /\ \A r \in db.offer_shop_amount :
          /\ \E offer \in db.offers : offer.id = r.offer_id
          /\ \E shop \in db.shops : shop.id = r.shop_id

\* a child is at work only once its parent's row is committed
ParentCommittedFirst ==
    ~save_to_csv =>
        /\ stack # <<>> => \E c \in db.categories : c.id = TopFrame.top_category_id
        /\ \A q \in 1..Len(subQueue) :
              \E c \in db.categories : c.id = subQueue[q].row.parent_id
        /\ \A p \in ProductIds :
              \E sub \in db.subcategories : sub.id = prodTasks[p].subcategory_id
        /\ \A o \in OfferIds :
              \E product \in db.products : product.id = offerTasks[o].product_id

(***************************************************************************)
(* C18  Referential integrity: in every committed state of a relational    *)
(* run that began on an empty database, a subcategory's parent_id is the   *)
(* id of a stored category, a product's subcategory_id that of a stored    *)
(* subcategory, an offer's product_id that of a stored product, and an     *)
(* offer_shop_amount row names a stored offer and a stored shop; the       *)
(* parent's row is committed before a child task exists.                   *)
(***************************************************************************)
C18_ReferentialIntegrity == ReferencesResolve /\ ParentCommittedFirst

\* in the middle of the first run all six tables hold rows: offer 1000 of
\* product 100 is committed with its shops, the task of offer 1001 is still
\* writing
C18_Witness ==
    /\ run = 1
    /\ \A t \in TableNames : db[t] # {}
    /\ \E r \in db.offers : r.id = 1000 /\ r.product_id = 100
    /\ \E o \in OfferIds :
          offerTasks[o].offer_id = 1001 /\ offerTasks[o].pc = "write"

\* a task that holds a permit waits for its response only, never for
\* another permit; a queue means that every permit is out
NoGateDeadlock ==
    /\ \A h \in Holders : ENABLED OfferResponse(h) \/ ENABLED OfferGranted(h)
    /\ waiters # <<>> => semValue = 0 /\ Holders # {}

\* a queued offer task leaves the queue by getting a permit, not otherwise
WaitersAcquire ==
    \A o \in Waiting :
        \/ StorageFailed'
        \/ /\ o \in DOMAIN offerTasks'
           /\ offerTasks'[o].pc \in {"waiting", "fetching"}

(***************************************************************************)
(* C19  Termination and gate liveness: for every catalog, gate size and    *)
(* interleaving, as long as no storage write fails, the gate never         *)
(* deadlocks, every offer task queued for a permit gets one, the run is    *)
(* not ended otherwise than by its completion message, and that message    *)
(* is eventually printed, once per run.                                    *)
(***************************************************************************)
C19_TerminationAndGateLiveness ==
    /\ [](NoGateDeadlock /\ completed <= run)
    /\ [][WaitersAcquire]_vars
    /\ [](mainPc = "aborted" => StorageFailed)
    /\ (Waiting # {}) ~> (Waiting = {} \/ StorageFailed)
    /\ (mainPc = "start") ~> ((mainPc = "done" /\ completed = run) \/ StorageFailed)

\* The rows a run without concurrency would write, statement after statement
\* in traversal order: every product of a list with its offers, one after
\* the other, every subcategory after its elder siblings' subtrees.
RECURSIVE SequentialOffers(_, _)
SequentialOffers(offers, product_id) ==
    IF offers = <<>> THEN <<>>
    ELSE OfferStatements(OfferDetail(Head(offers).id), product_id)
         \o SequentialOffers(Tail(offers), product_id)

RECURSIVE SequentialProducts(_, _)
SequentialProducts(products, subcategory_id) ==
    IF products = <<>> THEN <<>>
    ELSE <<ProductStatement(Head(products), subcategory_id)>>
         \o (IF "offers" \in DOMAIN Head(products)
             THEN SequentialOffers(Head(products).offers, Head(products).id)
             ELSE <<>>)
         \o SequentialProducts(Tail(products), subcategory_id)

RECURSIVE SequentialWalk(_, _)
SequentialWalk(subcategories, top_category_id) ==
    IF subcategories = <<>> THEN <<>>
    ELSE LET subcategory == Head(subcategories)
         IN SubcategoryInserts(subcategory, top_category_id)
            \o SequentialProducts(ProductList(subcategory.id), subcategory.id)
            \o (IF "subcategories" \in DOMAIN subcategory
                THEN SequentialWalk(subcategory.subcategories, top_category_id)
                ELSE <<>>)
            \o SequentialWalk(Tail(subcategories), top_category_id)

RECURSIVE SequentialRun(_)
SequentialRun(categories) ==
    IF categories = <<>> THEN <<>>
    ELSE <<CategoryStatement(Head(categories))>>
         \o (IF "subcategories" \in DOMAIN Head(categories)
             THEN SequentialWalk(Head(categories).subcategories, Head(categories).id)
             ELSE <<>>)
         \o SequentialRun(Tail(categories))

\* the subcategories that list the product, in traversal order
RECURSIVE YieldingInOrder(_, _)
YieldingInOrder(subcategories, product_id) ==
    IF subcategories = <<>> THEN <<>>
    ELSE LET subcategory == Head(subcategories)
         IN (IF \E i \in 1..Len(ProductList(subcategory.id)) :
                    ProductList(subcategory.id)[i].id = product_id
             THEN <<subcategory.id>> ELSE <<>>)
            \o (IF "subcategories" \in DOMAIN subcategory
                THEN YieldingInOrder(subcategory.subcategories, product_id)
                ELSE <<>>)
            \o YieldingInOrder(Tail(subcategories), product_id)

RECURSIVE YieldingInRun(_, _)
YieldingInRun(categories, product_id) ==
    IF categories = <<>> THEN <<>>
    ELSE (IF "subcategories" \in DOMAIN Head(categories)
          THEN YieldingInOrder(Head(categories).subcategories, product_id)
          ELSE <<>>)
         \o YieldingInRun(Tail(categories), product_id)

\* a run that has completed with every request answered 200
CompleteRunWithoutFailure == mainPc = "done" /\ ~save_to_csv /\ down = {}

====
